---- MODULE Spec2Model ----
(***************************************************************************)
(* A model of LineClearEngine (src/line_clear_engine.py): the grid, the    *)
(* active piece, the 7-bag randomizer, movement, super rotation, the       *)
(* lock / pattern-match / completion pipeline, hold and reset.             *)
(*                                                                         *)
(* Coordinates are as in the code: a block is <<col, row>>, origin bottom  *)
(* left, and grid[row][col] is the cell.  Python lists are 0-based; the    *)
(* sequences here are 1-based, so Cell(g, col, row) reads g[row+1][col+1]. *)
(***************************************************************************)
EXTENDS Integers, Sequences, FiniteSets, TLC

(***************************************************************************)
(* Bounds of the model.                                                    *)
(***************************************************************************)
\* how many random calls of one run may return something else than their
\* lowest value (random.shuffle: how many transpositions away from the
\* unshuffled list its result may be)
MaxRand == 1
\* how many successful hold swaps one run may make
MaxHolds == 1
\* how many pieces one run of SpecBag may generate (_generation_phase calls,
\* those of hold_swap included)
MaxDraws == 15
\* how many pieces one run of Spec may generate
MaxGen == 2
\* how many pieces one run of SpecPlay or SpecTop may generate after its first
MaxPlayGen == 1
\* the height of the stack SpecPlay starts from
MaxStack == 3
\* how many rows SpecTop may leave free between its stack and the spawn rows
MaxGap == 1
\* the lines cleared before SpecTop begins (the goal of level 2 is 10)
TopLines == 6
\* how many pieces one run of SpecHold may generate
MaxHoldGen == 5
\* how many successful hold swaps one run of SpecHold may make
MaxSwaps == 2
\* generations in a run with save and load
MaxSaveGen == 3
\* generations in a run that goes on after the end of the game
MaxOverGen == 2

(***************************************************************************)
(* Program constants.                                                      *)
(***************************************************************************)
GridCols == 10
GridRows == 22

Types == <<"O", "I", "T", "L", "J", "S", "Z">>
TypeSet == {Types[i] : i \in 1..Len(Types)}

NoHold == "None"
BlankPiece == [type |-> "", facing |-> "", blocks |-> <<<<0, 0>>, <<0, 0>>, <<0, 0>>, <<0, 0>>>>]
NewStats == [score |-> 0, lines |-> 0, level |-> 1, goal |-> 0]

\* _grid_piece_map
GridPieceMap(t) ==
    CASE t = "O" -> 1 [] t = "I" -> 2 [] t = "T" -> 3 [] t = "L" -> 4
      [] t = "J" -> 5 [] t = "S" -> 6 [] t = "Z" -> 7

\* range(1, 8): the values of a block of a piece
Mino == 1..7

(***************************************************************************)
(* Sequence helpers (list.pop(i), with i 0-based as in the code).          *)
(***************************************************************************)
Pop(s, i) == [k \in 1..(Len(s) - 1) |-> IF k <= i THEN s[k] ELSE s[k + 1]]

Swap(s, a, b) == [s EXCEPT ![a] = s[b], ![b] = s[a]]

(***************************************************************************)
(* The grid.                                                               *)
(***************************************************************************)
EmptyRow == [c \in 1..GridCols |-> 0]

CreateGrid == [r \in 1..GridRows |-> EmptyRow]

Cell(g, col, row) == g[row + 1][col + 1]

\* UpdateGridPosition, had it written every block as a block of the ghost piece
UpdateGridPositionAsGhost(g, row, col, type, ghost) ==
    [g EXCEPT ![row + 1][col + 1] =
        IF type = "E" THEN 0 ELSE GridPieceMap(type) + 10]

UpdateGridPosition(g, row, col, type, ghost) ==
    [g EXCEPT ![row + 1][col + 1] =
        IF type = "E" THEN 0
        ELSE IF ghost THEN GridPieceMap(type) + 10 ELSE GridPieceMap(type)]

RECURSIVE WriteBlocks(_, _, _, _)
WriteBlocks(g, blocks, type, i) ==
    IF i > 4 THEN g
    ELSE WriteBlocks(UpdateGridPosition(g, blocks[i][2], blocks[i][1], type, FALSE),
                     blocks, type, i + 1)

\* UpdateGridWithCurrentPiece, had it added the new blocks before it removed
\* the old ones
UpdateGridWriteThenErase(g, piece, old) ==
    LET written == IF piece.type \in TypeSet
                   THEN WriteBlocks(g, piece.blocks, piece.type, 1) ELSE g
    IN  IF old = <<>> THEN written ELSE WriteBlocks(written, old, "E", 1)

\* old is <<>> for old_piece=None, else the old piece's four blocks.  Writing
\* a blank piece (type "") raises KeyError in _update_grid_position at the
\* first block, after the old blocks were erased: the grid is left erased.
UpdateGridWithCurrentPiece(g, piece, old) ==
    LET erased == IF old = <<>> THEN g ELSE WriteBlocks(g, old, "E", 1)
    IN  IF piece.type \in TypeSet THEN WriteBlocks(erased, piece.blocks, piece.type, 1)
        ELSE erased

(***************************************************************************)
(* The randomizer.                                                         *)
(***************************************************************************)
\* random.shuffle returns some permutation of the list: here one that is at
\* most k transpositions away from it.
RECURSIVE ShuffleWithin(_, _)
ShuffleWithin(s, k) ==
    IF k = 0 THEN {s}
    ELSE LET prev == ShuffleWithin(s, k - 1)
         IN  prev \cup {Swap(p, a, b) : p \in prev, a \in 1..Len(s), b \in 1..Len(s)}

\* how many transpositions away from s the permutation p is, up to k
ShuffleCost(s, p, k) == CHOOSE j \in 0..k : p \in ShuffleWithin(s, j) /\
                            \A h \in 0..(j - 1) : p \notin ShuffleWithin(s, h)

\* _init_next_queue: the queues it may leave, each with what it costs the run
InitNextQueue ==
    {[queue |-> p, cost |-> ShuffleCost(Types, p, MaxRand)] : p \in ShuffleWithin(Types, MaxRand)}

\* randint(0, n - 1): its lowest value, or any other while the run may still
\* deviate
RandInt(n, k) == IF k > 0 THEN 0..(n - 1) ELSE {0}

\* the bag as _generation_phase sees it after its refill
Refilled(b) == IF b = <<>> THEN Types ELSE b

\* Draw, had it read the bag with bag[idx] instead of bag.pop(idx)
DrawWithoutPop(q, b, idx) ==
    LET b1 == Refilled(b)
    IN  [type  |-> Head(q),
         queue |-> Append(Tail(q), b1[idx + 1]),
         bag   |-> b1]

\* the draw of _generation_phase (type is None), idx the value of randint
Draw(q, b, idx) ==
    LET b1 == Refilled(b)
    IN  [type  |-> Head(q),
         queue |-> Append(Tail(q), b1[idx + 1]),
         bag   |-> Pop(b1, idx)]

(***************************************************************************)
(* Spawn layouts.                                                          *)
(***************************************************************************)
SpawnBlocks(t) ==
    CASE t = "I" -> <<<<4, 20>>, <<5, 20>>, <<6, 20>>, <<7, 20>>>>
      [] t = "O" -> <<<<5, 21>>, <<6, 21>>, <<5, 20>>, <<6, 20>>>>
      [] t = "T" -> <<<<5, 21>>, <<4, 20>>, <<5, 20>>, <<6, 20>>>>
      [] t = "L" -> <<<<6, 21>>, <<4, 20>>, <<5, 20>>, <<6, 20>>>>
      [] t = "J" -> <<<<4, 21>>, <<4, 20>>, <<5, 20>>, <<6, 20>>>>
      [] t = "S" -> <<<<5, 21>>, <<6, 21>>, <<4, 20>>, <<5, 20>>>>
      [] t = "Z" -> <<<<4, 21>>, <<5, 21>>, <<5, 20>>, <<6, 20>>>>

\* the if/elif chain of _generation_phase: a type it does not know leaves
\* the current piece as it is
CreatePiece(cur, t) ==
    IF t \in TypeSet THEN [type |-> t, facing |-> "N", blocks |-> SpawnBlocks(t)]
    ELSE cur

(***************************************************************************)
(* Movement.                                                               *)
(***************************************************************************)
\* RowDelta, had a down move been two rows
RowDeltaDouble(direction) == IF direction = "D" THEN -2 ELSE 0

RowDelta(direction) == IF direction = "D" THEN -1 ELSE 0
ColDelta(direction) == IF direction = "L" THEN -1 ELSE IF direction = "R" THEN 1 ELSE 0

InGrid(col, row) == col \in 0..(GridCols - 1) /\ row \in 0..(GridRows - 1)

IsBlockOf(blocks, col, row) == \E i \in 1..4 : blocks[i] = <<col, row>>

\* CheckMovementPossible, had it not excepted the piece's own blocks
CheckMovementNoSelf(g, piece, direction) ==
    \A i \in 1..4 :
        LET new_col == piece.blocks[i][1] + ColDelta(direction)
            new_row == piece.blocks[i][2] + RowDelta(direction)
        IN  /\ InGrid(new_col, new_row)
            /\ Cell(g, new_col, new_row) \notin Mino

\* CheckMovementPossible, had it only checked the bounds of the grid
CheckMovementBoundsOnly(g, piece, direction) ==
    \A i \in 1..4 :
        InGrid(piece.blocks[i][1] + ColDelta(direction),
               piece.blocks[i][2] + RowDelta(direction))

CheckMovementPossible(g, piece, direction) ==
    \A i \in 1..4 :
        LET new_col == piece.blocks[i][1] + ColDelta(direction)
            new_row == piece.blocks[i][2] + RowDelta(direction)
        IN  /\ InGrid(new_col, new_row)
            /\ ~(Cell(g, new_col, new_row) \in Mino /\ ~IsBlockOf(piece.blocks, new_col, new_row))

Translate(blocks, dc, dr) == [i \in 1..4 |-> <<blocks[i][1] + dc, blocks[i][2] + dr>>]

(***************************************************************************)
(* Super rotation.                                                         *)
(***************************************************************************)
CentrePointMap(t) ==
    CASE t = "O" -> 3 [] t = "I" -> 2 [] t = "T" -> 3 [] t = "L" -> 3
      [] t = "J" -> 3 [] t = "S" -> 4 [] t = "Z" -> 3

\* rotation_map[facing][clockwise]
RotationMap(facing, clockwise) ==
    CASE facing = "N" -> IF clockwise THEN "E" ELSE "W"
      [] facing = "E" -> IF clockwise THEN "S" ELSE "N"
      [] facing = "S" -> IF clockwise THEN "W" ELSE "E"
      [] facing = "W" -> IF clockwise THEN "N" ELSE "S"

OffsetsI(i, f) ==
    CASE i = 1 -> (CASE f = "N" -> <<0, 0>> [] f = "E" -> <<-1, 0>> [] f = "S" -> <<-1, 1>> [] f = "W" -> <<0, 1>>)
      [] i = 2 -> (CASE f = "N" -> <<-1, 0>> [] f = "E" -> <<0, 0>> [] f = "S" -> <<1, 1>> [] f = "W" -> <<0, 1>>)
      [] i = 3 -> (CASE f = "N" -> <<2, 0>> [] f = "E" -> <<0, 0>> [] f = "S" -> <<-2, 1>> [] f = "W" -> <<0, 1>>)
      [] i = 4 -> (CASE f = "N" -> <<-1, 0>> [] f = "E" -> <<0, 1>> [] f = "S" -> <<1, 0>> [] f = "W" -> <<0, -1>>)
      [] i = 5 -> (CASE f = "N" -> <<2, 0>> [] f = "E" -> <<0, -2>> [] f = "S" -> <<-2, 0>> [] f = "W" -> <<0, 1>>)

\* the entries "L", "S", "T", "Z" and "J" of the table are equal
OffsetsJLSTZ(i, f) ==
    CASE i = 1 -> <<0, 0>>
      [] i = 2 -> (CASE f = "N" -> <<0, 0>> [] f = "E" -> <<1, 0>> [] f = "S" -> <<0, 0>> [] f = "W" -> <<-1, 0>>)
      [] i = 3 -> (CASE f = "N" -> <<0, 0>> [] f = "E" -> <<1, -1>> [] f = "S" -> <<0, 0>> [] f = "W" -> <<-1, -1>>)
      [] i = 4 -> (CASE f = "N" -> <<0, 0>> [] f = "E" -> <<0, 2>> [] f = "S" -> <<0, 0>> [] f = "W" -> <<0, 2>>)
      [] i = 5 -> (CASE f = "N" -> <<0, 0>> [] f = "E" -> <<1, 2>> [] f = "S" -> <<0, 0>> [] f = "W" -> <<-1, 2>>)

Offsets(t, i, f) == IF t = "I" THEN OffsetsI(i, f) ELSE OffsetsJLSTZ(i, f)

\* CalculateBlockRotation, had its matrix exchanged the two coordinates
CalculateBlockRotationMirrors(coords, center, clockwise) ==
    LET rel == <<coords[1] - center[1], coords[2] - center[2]>>
        rot_mat == <<<<0, 1>>, <<1, 0>>>>
        new_rel == <<rot_mat[1][1] * rel[1] + rot_mat[1][2] * rel[2],
                     rot_mat[2][1] * rel[1] + rot_mat[2][2] * rel[2]>>
    IN  <<center[1] + new_rel[1], center[2] + new_rel[2]>>

CalculateBlockRotation(coords, center, clockwise) ==
    LET rel == <<coords[1] - center[1], coords[2] - center[2]>>
        rot_mat == IF clockwise THEN <<<<0, 1>>, <<-1, 0>>>> ELSE <<<<0, -1>>, <<1, 0>>>>
        new_rel == <<rot_mat[1][1] * rel[1] + rot_mat[1][2] * rel[2],
                     rot_mat[2][1] * rel[1] + rot_mat[2][2] * rel[2]>>
    IN  <<center[1] + new_rel[1], center[2] + new_rel[2]>>

\* CheckPieceCanMoveByOffset, had it only checked the bounds of the grid
CheckOffsetBoundsOnly(g, piece, block_coords, offset) ==
    \A i \in 1..4 : InGrid(block_coords[i][1] + offset[1], block_coords[i][2] + offset[2])

CheckPieceCanMoveByOffset(g, piece, block_coords, offset) ==
    \A i \in 1..4 :
        LET new_col == block_coords[i][1] + offset[1]
            new_row == block_coords[i][2] + offset[2]
        IN  /\ InGrid(new_col, new_row)
            /\ (Cell(g, new_col, new_row) \in Mino => IsBlockOf(piece.blocks, new_col, new_row))

\* OffsetOf, had it subtracted the old facing's offset from the new one's
OffsetOfSwapped(t, i, old_facing, new_facing) ==
    <<Offsets(t, i, new_facing)[1] - Offsets(t, i, old_facing)[1],
      Offsets(t, i, new_facing)[2] - Offsets(t, i, old_facing)[2]>>

\* the offset the loop of _check_offsets computes for entry i
OffsetOf(t, i, old_facing, new_facing) ==
    <<Offsets(t, i, old_facing)[1] - Offsets(t, i, new_facing)[1],
      Offsets(t, i, old_facing)[2] - Offsets(t, i, new_facing)[2]>>

\* the loop of _check_offsets from entry i on: the entry it breaks at, or 0
RECURSIVE FirstOffset(_, _, _, _, _, _)
FirstOffset(g, piece, block_coords, old_facing, new_facing, i) ==
    IF i > 5 THEN 0
    ELSE IF CheckPieceCanMoveByOffset(g, piece, block_coords,
                                      OffsetOf(piece.type, i, old_facing, new_facing))
         THEN i
         ELSE FirstOffset(g, piece, block_coords, old_facing, new_facing, i + 1)

\* only the four blocks are assigned: the facing of the piece is left as it is
RotateCurrentPiece(piece, block_coords, offset) ==
    [piece EXCEPT !.blocks = Translate(block_coords, offset[1], offset[2])]

CheckOffsets(g, piece, block_coords, old_facing, new_facing) ==
    LET i == FirstOffset(g, piece, block_coords, old_facing, new_facing, 1)
    IN  IF i > 0
        THEN RotateCurrentPiece(piece, block_coords,
                                OffsetOf(piece.type, i, old_facing, new_facing))
        ELSE piece

\* SuperRotation, had it not returned at once for the O piece
SuperRotationOfO(g, piece, clockwise) ==
    IF piece.type \notin TypeSet THEN piece
    ELSE LET centre_coords == piece.blocks[CentrePointMap(piece.type)]
             new_block_coords ==
                 [i \in 1..4 |-> CalculateBlockRotation(piece.blocks[i], centre_coords, clockwise)]
         IN  CheckOffsets(g, piece, new_block_coords, piece.facing,
                          RotationMap(piece.facing, clockwise))

\* the piece after _super_rotation; a blank piece raises KeyError at
\* centre_point_map[type] before anything is assigned
SuperRotation(g, piece, clockwise) ==
    IF piece.type = "O" \/ piece.type \notin TypeSet THEN piece
    ELSE LET centre_coords == piece.blocks[CentrePointMap(piece.type)]
             new_block_coords ==
                 [i \in 1..4 |-> CalculateBlockRotation(piece.blocks[i], centre_coords, clockwise)]
         IN  CheckOffsets(g, piece, new_block_coords, piece.facing,
                          RotationMap(piece.facing, clockwise))

\* the offset entry _check_offsets applies in _super_rotation, 0 if it
\* applies none
AppliedOffset(g, piece, clockwise) ==
    IF piece.type = "O" \/ piece.type \notin TypeSet THEN 0
    ELSE FirstOffset(g, piece,
             [i \in 1..4 |-> CalculateBlockRotation(piece.blocks[i],
                                 piece.blocks[CentrePointMap(piece.type)], clockwise)],
             piece.facing, RotationMap(piece.facing, clockwise), 1)

\* MovePiece, had it not removed the old blocks from the grid
MovePieceLeavesTrail(g, piece, direction) ==
    LET moved ==
            IF direction \in {"L", "R", "D"}
            THEN IF CheckMovementPossible(g, piece, direction)
                 THEN [piece EXCEPT !.blocks =
                          Translate(piece.blocks, ColDelta(direction), RowDelta(direction))]
                 ELSE piece
            ELSE IF direction = "C" THEN SuperRotation(g, piece, TRUE)
            ELSE IF direction = "A" THEN SuperRotation(g, piece, FALSE)
            ELSE piece
    IN  [piece |-> moved,
         grid  |-> IF moved # piece
                   THEN UpdateGridWithCurrentPiece(g, moved, <<>>)
                   ELSE g]

\* move_current_piece: the piece and the grid after it
MovePiece(g, piece, direction) ==
    LET moved ==
            IF direction \in {"L", "R", "D"}
            THEN IF CheckMovementPossible(g, piece, direction)
                 THEN [piece EXCEPT !.blocks =
                          Translate(piece.blocks, ColDelta(direction), RowDelta(direction))]
                 ELSE piece
            ELSE IF direction = "C" THEN SuperRotation(g, piece, TRUE)
            ELSE IF direction = "A" THEN SuperRotation(g, piece, FALSE)
            ELSE piece
    IN  [piece |-> moved,
         grid  |-> IF moved # piece
                   THEN UpdateGridWithCurrentPiece(g, moved, piece.blocks)
                   ELSE g]

\* HardDropLoop, had it been an if and not a while
HardDropOnce(g, piece) ==
    IF CheckMovementPossible(g, piece, "D")
    THEN MovePiece(g, piece, "D")
    ELSE [piece |-> piece, grid |-> g]

\* the loop of hard_drop
RECURSIVE HardDropLoop(_, _)
HardDropLoop(g, piece) ==
    IF CheckMovementPossible(g, piece, "D")
    THEN LET m == MovePiece(g, piece, "D") IN HardDropLoop(m.grid, m.piece)
    ELSE [piece |-> piece, grid |-> g]

\* Generate, had it left the new piece at its spawn layout
GenerateAtLayout(g, cur, new_type, old) ==
    LET piece == CreatePiece(cur, new_type)
    IN  [piece |-> piece, grid |-> UpdateGridWithCurrentPiece(g, piece, old)]

\* Generate, had it left the old piece in the grid
GenerateOverOld(g, cur, new_type, old) ==
    LET piece == CreatePiece(cur, new_type)
        g1 == UpdateGridWithCurrentPiece(g, piece, <<>>)
    IN  IF CheckMovementPossible(g1, piece, "D")
        THEN MovePiece(g1, piece, "D")
        ELSE [piece |-> piece, grid |-> g1]

\* _generation_phase from "Create the new piece" on
Generate(g, cur, new_type, old) ==
    LET piece == CreatePiece(cur, new_type)
        g1 == UpdateGridWithCurrentPiece(g, piece, old)
    IN  IF CheckMovementPossible(g1, piece, "D")
        THEN MovePiece(g1, piece, "D")
        ELSE [piece |-> piece, grid |-> g1]

(***************************************************************************)
(* Lock, pattern match, completion.                                        *)
(***************************************************************************)
RowClear(g, i) == \A c \in 1..GridCols : g[i + 1][c] \in Mino

\* rows_to_clear of _pattern_match: the 0-based indices of the full rows,
\* ascending
RowsToClear(g) == SelectSeq([i \in 1..Len(g) |-> i - 1], LAMBDA i : RowClear(g, i))

RECURSIVE ClearRows(_, _)
ClearRows(g, rows) ==
    IF rows = <<>> THEN g
    ELSE ClearRows(Append(Pop(g, Head(rows)), EmptyRow), Tail(rows))

SetFallSpeed(level) ==
    \* round(((0.8 - (level - 1) * 0.007) ** (level - 1)) * 1000)
    CASE level = 1 -> 1000 [] level = 2 -> 793 [] level = 3 -> 618
      [] level = 4 -> 473 [] level = 5 -> 355 [] level = 6 -> 262
      [] level = 7 -> 190 [] level = 8 -> 135 [] level = 9 -> 94
      [] level = 10 -> 64 [] level = 11 -> 43 [] level = 12 -> 28
      [] level = 13 -> 18 [] level = 14 -> 11 [] level = 15 -> 7
      [] level = 16 -> 4 [] level = 17 -> 3 [] OTHER -> 1

\* PatternMatchStats, had it counted a clear and not its rows
PatternMatchStatsOnce(st, rows_to_clear) ==
    [st EXCEPT !.lines = @ + (IF rows_to_clear = <<>> THEN 0 ELSE 1)]

\* _pattern_match: the lines cleared stat after rows_to_clear were cleared
PatternMatchStats(st, rows_to_clear) == [st EXCEPT !.lines = @ + Len(rows_to_clear)]

\* CompletionStats, had it raised the goal by five times the level it left
CompletionStatsOldLevel(st) ==
    IF st.goal <= st.lines
    THEN [st EXCEPT !.level = st.level + 1, !.goal = st.goal + st.level * 5]
    ELSE st

\* _completion_phase: the level-up
CompletionStats(st) ==
    IF st.goal <= st.lines
    THEN [st EXCEPT !.level = st.level + 1, !.goal = st.goal + (st.level + 1) * 5]
    ELSE st

\* GameOver, had it looked at the spawn area only
GameOverSpawnOnly(blocks) ==
    \E i \in 1..4 : \/ (blocks[i][2] = 20 /\ blocks[i][1] \in 4..7)
                    \/ (blocks[i][2] = 21 /\ blocks[i][1] \in 4..6)

\* game_over of _check_game_overs
GameOver(blocks) ==
    LET spawn(b) == (b[2] = 20 /\ b[1] \in 4..7) \/ (b[2] = 21 /\ b[1] \in 4..6)
        below_sky == \E i \in 1..4 : ~spawn(blocks[i]) /\ blocks[i][2] < 20
        above_sky == \E i \in 1..4 : ~spawn(blocks[i]) /\ ~(blocks[i][2] < 20)
    IN  (\E i \in 1..4 : spawn(blocks[i])) \/ (above_sky /\ ~below_sky)

(***************************************************************************)
(* The state of the engine.                                                *)
(***************************************************************************)
VARIABLES
    grid,            \* self.grid
    current_piece,   \* self.current_piece
    next_queue,      \* self.next_queue
    bag,             \* self._bag
    hold_queue,      \* self.hold_queue (NoHold is None)
    hold_available,  \* self._hold_available
    stats,           \* self.stats
    game_running,    \* self.game_running
    game_paused,     \* self.game_paused
    fallspeed,       \* self.fallspeed
    game_options,    \* self._game_options
    draws,           \* history: the types drawn from the randomizer since
                     \* the initial state or the last reset
    last,            \* history: the last call and its argument
    pm,              \* history: what the pattern match of the last call saw
    budget,          \* what is left of the bounds of the run
    quota,           \* the bounds of the run (constant)
    save_file,       \* the lines of the file save_game wrote (<<>>: none, or empty)
    app              \* LineClearApp: whether Start was pressed (started) and
                     \* the run loop (loop): "none" never called, "due" a
                     \* call of _main_run_loop is scheduled, "over" it
                     \* returned at a game over without rescheduling

engine == <<grid, current_piece, next_queue, bag, hold_queue, hold_available,
            stats, game_running, game_paused, fallspeed, game_options>>

vars == <<grid, current_piece, next_queue, bag, hold_queue, hold_available,
          stats, game_running, game_paused, fallspeed, game_options,
          draws, last, pm, budget, quota, save_file, app>>

NoPM == [locked |-> FALSE]

\* the application before Start is pressed: no run loop is due
NoApp == [started |-> FALSE, loop |-> "none"]

\* res: for a move whether the piece moved (1) or not (0), for a rotation
\* the offset entry that was applied (0: none), else 0
Call(op, arg, res) == [op |-> op, arg |-> arg, res |-> res]

\* set_game_options with its default arguments
SetGameOptions(hold_on, ghost_piece) ==
    [hold_queue |-> hold_on, ghost_piece |-> ghost_piece, lock_down |-> "Extended"]

\* the budget after a randint that returned idx
Spend(b, idx) == [b EXCEPT !.rand = @ - (IF idx = 0 THEN 0 ELSE 1)]

(***************************************************************************)
(* __init__: the engine after construction, its queue shuffled to q.       *)
(***************************************************************************)
Constructed(q) ==
    /\ game_options = SetGameOptions(TRUE, TRUE)
    /\ grid = CreateGrid
    /\ next_queue = q
    /\ hold_queue = NoHold
    /\ current_piece = BlankPiece
    /\ stats = NewStats
    /\ game_running = FALSE
    /\ game_paused = FALSE
    /\ hold_available = TRUE
    /\ bag = <<>>
    /\ fallspeed = SetFallSpeed(NewStats.level)

Fresh(gens) ==
    \E s \in InitNextQueue :
        /\ Constructed(s.queue)
        /\ draws = <<>>
        /\ last = Call("init", "", 0)
        /\ pm = NoPM
        /\ quota = [gens |-> gens, holds |-> MaxHolds, rand |-> MaxRand]
        /\ save_file = <<>>
        /\ app = NoApp
        /\ budget = [gens |-> gens, holds |-> MaxHolds,
                     rand |-> MaxRand - s.cost]

Init == Fresh(MaxGen)

(***************************************************************************)
(* start_game                                                              *)
(***************************************************************************)
StartGame ==
    /\ budget.gens > 0
    /\ \E idx \in RandInt(Len(Refilled(bag)), budget.rand) :
        LET d == Draw(next_queue, bag, idx)
            gen == Generate(grid, current_piece, d.type, <<>>)
        IN  /\ game_running' = TRUE
            /\ game_paused' = FALSE
            /\ fallspeed' = SetFallSpeed(stats.level)
            /\ next_queue' = d.queue
            /\ bag' = d.bag
            /\ current_piece' = gen.piece
            /\ grid' = gen.grid
            /\ draws' = Append(draws, d.type)
            /\ budget' = [Spend(budget, idx) EXCEPT !.gens = @ - 1]
    /\ last' = Call("start", "", 0)
    /\ pm' = NoPM
    /\ UNCHANGED <<hold_queue, hold_available, stats, game_options, quota, save_file, app>>

(***************************************************************************)
(* falling_phase, with _lock_phase, _pattern_match, _clear_rows,           *)
(* _completion_phase, _check_game_overs and _generation_phase.             *)
(***************************************************************************)
\* LockPhase, had it generated the next piece without looking at game_running
LockPhaseAlwaysGenerates ==
    LET rows_to_clear == RowsToClear(grid)
        cleared == ClearRows(grid, rows_to_clear)
        st == CompletionStats(PatternMatchStats(stats, rows_to_clear))
    IN  /\ hold_available' = TRUE
        /\ stats' = st
        /\ fallspeed' = IF st.level # stats.level THEN SetFallSpeed(st.level) ELSE fallspeed
        /\ game_running' = (game_running /\ ~GameOver(current_piece.blocks))
        /\ pm' = [locked |-> TRUE, before |-> grid, rows |-> rows_to_clear,
                  after |-> cleared, lines |-> stats.lines, piece |-> current_piece]
        /\ last' = Call("tick", "lock", 0)
        /\ \E idx \in RandInt(Len(Refilled(bag)), budget.rand) :
               LET d == Draw(next_queue, bag, idx)
                   gen == Generate(cleared, current_piece, d.type, <<>>)
               IN  /\ next_queue' = d.queue
                   /\ bag' = d.bag
                   /\ current_piece' = gen.piece
                   /\ grid' = gen.grid
                   /\ draws' = Append(draws, d.type)
                   /\ budget' = [Spend(budget, idx) EXCEPT !.gens = @ - 1]
        /\ UNCHANGED <<hold_queue, game_paused, game_options, quota, save_file, app>>

LockPhase ==
    LET rows_to_clear == RowsToClear(grid)
        cleared == ClearRows(grid, rows_to_clear)
        st == CompletionStats(PatternMatchStats(stats, rows_to_clear))
        running == game_running /\ ~GameOver(current_piece.blocks)
    IN  /\ hold_available' = TRUE
        /\ stats' = st
        /\ fallspeed' = IF st.level # stats.level THEN SetFallSpeed(st.level) ELSE fallspeed
        /\ game_running' = running
        /\ pm' = [locked |-> TRUE, before |-> grid, rows |-> rows_to_clear,
                  after |-> cleared, lines |-> stats.lines, piece |-> current_piece]
        /\ last' = Call("tick", "lock", 0)
        /\ IF running
           THEN \E idx \in RandInt(Len(Refilled(bag)), budget.rand) :
                    LET d == Draw(next_queue, bag, idx)
                        gen == Generate(cleared, current_piece, d.type, <<>>)
                    IN  /\ next_queue' = d.queue
                        /\ bag' = d.bag
                        /\ current_piece' = gen.piece
                        /\ grid' = gen.grid
                        /\ draws' = Append(draws, d.type)
                        /\ budget' = [Spend(budget, idx) EXCEPT !.gens = @ - 1]
           ELSE /\ grid' = cleared
                /\ UNCHANGED <<current_piece, next_queue, bag, draws, budget>>
        /\ UNCHANGED <<hold_queue, game_paused, game_options, quota, save_file, app>>

\* FallingPhase, had a tick on a piece that cannot fall left it where it is
FallingPhaseWaits ==
    /\ budget.gens > 0
    /\ IF CheckMovementPossible(grid, current_piece, "D")
       THEN LET m == MovePiece(grid, current_piece, "D")
            IN  /\ current_piece' = m.piece
                /\ grid' = m.grid
                /\ last' = Call("tick", "fall", 1)
                /\ pm' = NoPM
                /\ UNCHANGED <<next_queue, bag, hold_queue, hold_available, stats,
                               game_running, game_paused, fallspeed, game_options,
                               draws, budget, quota, save_file, app>>
       ELSE /\ last' = Call("tick", "fall", 0)
            /\ pm' = NoPM
            /\ UNCHANGED <<grid, current_piece, next_queue, bag, hold_queue,
                           hold_available, stats, game_running, game_paused, fallspeed,
                           game_options, draws, budget, quota, save_file, app>>

FallingPhase ==
    /\ budget.gens > 0
    /\ IF CheckMovementPossible(grid, current_piece, "D")
       THEN LET m == MovePiece(grid, current_piece, "D")
            IN  /\ current_piece' = m.piece
                /\ grid' = m.grid
                /\ last' = Call("tick", "fall", 1)
                /\ pm' = NoPM
                /\ UNCHANGED <<next_queue, bag, hold_queue, hold_available, stats,
                               game_running, game_paused, fallspeed, game_options,
                               draws, budget, quota, save_file, app>>
       ELSE LockPhase

(***************************************************************************)
(* move_current_piece(direction)                                           *)
(***************************************************************************)
\* MoveCurrentPiece, had it refused the call while the game is paused
MoveCurrentPieceUnlessPaused ==
    /\ budget.gens > 0
    /\ \E direction \in {"L", "R", "D", "C", "A"} :
        LET m == IF game_paused THEN [piece |-> current_piece, grid |-> grid]
                 ELSE MovePiece(grid, current_piece, direction)
        IN  /\ current_piece' = m.piece
            /\ grid' = m.grid
            /\ last' = Call("move", direction,
                            IF direction \in {"C", "A"}
                            THEN AppliedOffset(grid, current_piece, direction = "C")
                            ELSE IF m.piece # current_piece THEN 1 ELSE 0)
    /\ pm' = NoPM
    /\ UNCHANGED <<next_queue, bag, hold_queue, hold_available, stats, game_running,
                   game_paused, fallspeed, game_options, draws, budget, quota, save_file, app>>

MoveCurrentPiece ==
    /\ budget.gens > 0
    /\ \E direction \in {"L", "R", "D", "C", "A"} :
        LET m == MovePiece(grid, current_piece, direction)
        IN  /\ current_piece' = m.piece
            /\ grid' = m.grid
            /\ last' = Call("move", direction,
                            IF direction \in {"C", "A"}
                            THEN AppliedOffset(grid, current_piece, direction = "C")
                            ELSE IF m.piece # current_piece THEN 1 ELSE 0)
    /\ pm' = NoPM
    /\ UNCHANGED <<next_queue, bag, hold_queue, hold_available, stats, game_running,
                   game_paused, fallspeed, game_options, draws, budget, quota, save_file, app>>

(***************************************************************************)
(* hard_drop                                                               *)
(***************************************************************************)
HardDrop ==
    /\ budget.gens > 0
    /\ LET m == HardDropLoop(grid, current_piece)
       IN  /\ current_piece' = m.piece
           /\ grid' = m.grid
    /\ last' = Call("hard_drop", "", 0)
    /\ pm' = NoPM
    /\ UNCHANGED <<next_queue, bag, hold_queue, hold_available, stats, game_running,
                   game_paused, fallspeed, game_options, draws, budget, quota, save_file, app>>

(***************************************************************************)
(* toggle_pause_game                                                       *)
(***************************************************************************)
\* TogglePauseGame, had resuming from a pause set the game running again
TogglePauseResumes ==
    /\ budget.gens > 0
    /\ game_paused' = ~game_paused
    /\ game_running' = (game_running \/ game_paused)
    /\ last' = Call("pause", "", 0)
    /\ pm' = NoPM
    /\ UNCHANGED <<grid, current_piece, next_queue, bag, hold_queue, hold_available,
                   stats, fallspeed, game_options, draws, budget, quota, save_file, app>>

TogglePauseGame ==
    /\ budget.gens > 0
    /\ game_paused' = ~game_paused
    /\ last' = Call("pause", "", 0)
    /\ pm' = NoPM
    /\ UNCHANGED <<grid, current_piece, next_queue, bag, hold_queue, hold_available,
                   stats, game_running, fallspeed, game_options, draws, budget, quota, save_file, app>>

(***************************************************************************)
(* hold_swap                                                               *)
(***************************************************************************)
\* HoldSwap, had the swap with an occupied hold queue advanced the randomizer
HoldSwapDraws ==
    /\ budget.gens > 0
    /\ pm' = NoPM
    /\ IF hold_available
       THEN /\ budget.holds > 0
            /\ hold_available' = FALSE
            /\ hold_queue' = current_piece.type
            /\ \E idx \in RandInt(Len(Refilled(bag)), budget.rand) :
                LET d == Draw(next_queue, bag, idx)
                    gen == Generate(grid, current_piece,
                                    IF hold_queue # NoHold THEN hold_queue ELSE d.type,
                                    current_piece.blocks)
                IN  /\ next_queue' = d.queue
                    /\ bag' = d.bag
                    /\ current_piece' = gen.piece
                    /\ grid' = gen.grid
                    /\ draws' = Append(draws, d.type)
                    /\ last' = Call("hold", IF hold_queue # NoHold THEN "swap" ELSE "draw", 0)
                    /\ budget' = [Spend(budget, idx) EXCEPT !.holds = @ - 1, !.gens = @ - 1]
       ELSE /\ last' = Call("hold", "unavailable", 0)
            /\ UNCHANGED <<grid, current_piece, next_queue, bag, hold_queue,
                           hold_available, draws, budget>>
    /\ UNCHANGED <<stats, game_running, game_paused, fallspeed, game_options, quota, save_file, app>>

\* HoldSwap, had it not looked at _hold_available
HoldSwapAlways ==
    /\ budget.gens > 0
    /\ budget.holds > 0
    /\ pm' = NoPM
    /\ hold_available' = FALSE
    /\ hold_queue' = current_piece.type
    /\ IF hold_queue # NoHold
       THEN LET gen == Generate(grid, current_piece, hold_queue, current_piece.blocks)
            IN  /\ current_piece' = gen.piece
                /\ grid' = gen.grid
                /\ last' = Call("hold", "swap", 0)
                /\ budget' = [budget EXCEPT !.holds = @ - 1, !.gens = @ - 1]
                /\ UNCHANGED <<next_queue, bag, draws>>
       ELSE \E idx \in RandInt(Len(Refilled(bag)), budget.rand) :
                LET d == Draw(next_queue, bag, idx)
                    gen == Generate(grid, current_piece, d.type, current_piece.blocks)
                IN  /\ next_queue' = d.queue
                    /\ bag' = d.bag
                    /\ current_piece' = gen.piece
                    /\ grid' = gen.grid
                    /\ draws' = Append(draws, d.type)
                    /\ last' = Call("hold", "draw", 0)
                    /\ budget' = [Spend(budget, idx) EXCEPT !.holds = @ - 1, !.gens = @ - 1]
    /\ UNCHANGED <<stats, game_running, game_paused, fallspeed, game_options, quota, save_file, app>>

HoldSwap ==
    /\ budget.gens > 0
    /\ pm' = NoPM
    /\ IF hold_available
       THEN /\ budget.holds > 0
            /\ hold_available' = FALSE
            /\ hold_queue' = current_piece.type
            /\ IF hold_queue # NoHold
               THEN LET gen == Generate(grid, current_piece, hold_queue,
                                        current_piece.blocks)
                    IN  /\ current_piece' = gen.piece
                        /\ grid' = gen.grid
                        /\ last' = Call("hold", "swap", 0)
                        /\ budget' = [budget EXCEPT !.holds = @ - 1, !.gens = @ - 1]
                        /\ UNCHANGED <<next_queue, bag, draws>>
               ELSE \E idx \in RandInt(Len(Refilled(bag)), budget.rand) :
                        LET d == Draw(next_queue, bag, idx)
                            gen == Generate(grid, current_piece, d.type,
                                            current_piece.blocks)
                        IN  /\ next_queue' = d.queue
                            /\ bag' = d.bag
                            /\ current_piece' = gen.piece
                            /\ grid' = gen.grid
                            /\ draws' = Append(draws, d.type)
                            /\ last' = Call("hold", "draw", 0)
                            /\ budget' = [Spend(budget, idx) EXCEPT !.holds = @ - 1,
                                                                    !.gens = @ - 1]
       ELSE /\ last' = Call("hold", "unavailable", 0)
            /\ UNCHANGED <<grid, current_piece, next_queue, bag, hold_queue,
                           hold_available, draws, budget>>
    /\ UNCHANGED <<stats, game_running, game_paused, fallspeed, game_options, quota, save_file, app>>

(***************************************************************************)
(* reset_state: a new game, which may generate and hold as many pieces as  *)
(* the first of the run.                                                   *)
(***************************************************************************)
\* ResetState, had it left the bag as the last game left it
ResetStateKeepsBag ==
    /\ budget.gens > 0
    /\ \E s \in InitNextQueue :
        /\ s.cost <= budget.rand
        /\ next_queue' = s.queue
        /\ budget' = [quota EXCEPT !.rand = budget.rand - s.cost]
    /\ current_piece' = BlankPiece
    /\ stats' = NewStats
    /\ game_running' = FALSE
    /\ game_paused' = FALSE
    /\ hold_available' = TRUE
    /\ hold_queue' = NoHold
    /\ bag' = bag
    /\ grid' = CreateGrid
    /\ fallspeed' = SetFallSpeed(NewStats.level)
    /\ draws' = <<>>
    /\ last' = Call("reset", "", 0)
    /\ pm' = NoPM
    /\ UNCHANGED <<game_options, quota, save_file, app>>

ResetState ==
    /\ budget.gens > 0
    /\ \E s \in InitNextQueue :
        /\ s.cost <= budget.rand
        /\ next_queue' = s.queue
        /\ budget' = [quota EXCEPT !.rand = budget.rand - s.cost]
    /\ current_piece' = BlankPiece
    /\ stats' = NewStats
    /\ game_running' = FALSE
    /\ game_paused' = FALSE
    /\ hold_available' = TRUE
    /\ hold_queue' = NoHold
    /\ bag' = <<>>
    /\ grid' = CreateGrid
    /\ fallspeed' = SetFallSpeed(NewStats.level)
    /\ draws' = <<>>
    /\ last' = Call("reset", "", 0)
    /\ pm' = NoPM
    /\ UNCHANGED <<game_options, quota, save_file, app>>

(***************************************************************************)
(* set_game_options(hold_on, ghost_piece)                                  *)
(***************************************************************************)
SetOptions ==
    /\ budget.gens > 0
    /\ \E hold_on \in BOOLEAN, ghost_piece \in BOOLEAN :
        /\ game_options' = SetGameOptions(hold_on, ghost_piece)
        /\ last' = Call("options", IF hold_on THEN "hold_on" ELSE "hold_off", 0)
    /\ pm' = NoPM
    /\ UNCHANGED <<grid, current_piece, next_queue, bag, hold_queue, hold_available,
                   stats, game_running, game_paused, fallspeed, draws, budget, quota, save_file, app>>

(***************************************************************************)
(* save_game and load_game.  The file is a sequence of lines.  str() of a  *)
(* dict or a list of the engine (strings, integers, booleans, tuples) is   *)
(* the text that literal_eval reads back as the same value: the line keeps *)
(* the value and its kind.  The hold queue is written as it is, not as     *)
(* its str().                                                              *)
(***************************************************************************)
Str(v) == [kind |-> "repr", val |-> v]
Raw(v) == [kind |-> "raw", val |-> v]
BadLine == [kind |-> "bad", val |-> 0]

\* literal_eval of a line that str() wrote
LiteralEval(line) == line.val

\* save_game: the file is opened for writing, then the lines are joined;
\* "\n".join raises TypeError on a hold queue of None and leaves the file
\* empty.  The first line is the time.
SaveGame ==
    /\ save_file' = IF hold_queue = NoHold THEN <<>>
                    ELSE <<Raw("time"), Str(current_piece), Raw(hold_queue),
                           Str(next_queue), Str(stats), Str(game_options), Str(grid)>>
    /\ last' = Call("save", "", IF hold_queue = NoHold THEN 0 ELSE 1)
    /\ pm' = NoPM
    /\ UNCHANGED <<engine, draws, budget, quota, app>>

\* what may have happened to the file before it is loaded: nothing, it was
\* cut before line at, or line at no longer is a Python literal
Damages ==
    {[how |-> "saved", at |-> 0]}
        \cup {[how |-> "cut", at |-> k] : k \in 2..7}
        \cup {[how |-> "bad", at |-> k] : k \in {2, 4, 5, 6, 7}}

ReadLines(f, damage) ==
    IF damage.how = "cut" THEN SubSeq(f, 1, damage.at - 1)
    ELSE IF damage.how = "bad" THEN [f EXCEPT ![damage.at] = BadLine]
    ELSE f

\* lines[i] exists and the statement of load_game that reads it succeeds
\* (line 3, the hold queue, is only stripped)
Readable(lines, i) == i <= Len(lines) /\ (i = 3 \/ lines[i].kind = "repr")

\* the first line whose statement raises (IndexError, or the error of
\* literal_eval), 8 if none does
FirstUnreadable(lines) ==
    CHOOSE n \in 2..8 :
        /\ \A i \in 2..(n - 1) : Readable(lines, i)
        /\ n = 8 \/ ~Readable(lines, n)

\* load_game: one assignment per line, in the order of the file, until a
\* statement raises
LoadGame ==
    /\ \E damage \in Damages :
        /\ damage.at <= Len(save_file)
        /\ LET lines == ReadLines(save_file, damage)
               n == FirstUnreadable(lines)
           IN  /\ current_piece' = IF n > 2 THEN LiteralEval(lines[2]) ELSE current_piece
               /\ hold_queue' = IF n > 3 THEN lines[3].val ELSE hold_queue
               /\ next_queue' = IF n > 4 THEN LiteralEval(lines[4]) ELSE next_queue
               /\ stats' = IF n > 5 THEN LiteralEval(lines[5]) ELSE stats
               /\ game_options' = IF n > 6 THEN LiteralEval(lines[6]) ELSE game_options
               /\ grid' = IF n > 7 THEN LiteralEval(lines[7]) ELSE grid
               /\ last' = Call("load", damage.how, n)
    /\ pm' = NoPM
    /\ UNCHANGED <<bag, hold_available, game_running, game_paused, fallspeed,
                   draws, budget, quota, save_file, app>>

(***************************************************************************)
(* The engine from construction, under every call.                         *)
(***************************************************************************)
(***************************************************************************)
(* main.py: LineClearApp                                                   *)
(***************************************************************************)
\* start_game of the application (the Start button): the menu is removed,
\* then the engine is called as start_game(from_save=True); the engine's
\* start_game takes no argument, the call raises TypeError, and the call of
\* _main_run_loop on the next line is not reached
AppStartGame ==
    /\ app' = [app EXCEPT !.started = TRUE]
    /\ last' = Call("app_start", "raised", 0)
    /\ pm' = NoPM
    /\ UNCHANGED <<engine, draws, budget, quota, save_file>>

\* _main_run_loop, when a call of it is due: it ends the game and returns
\* if the engine neither runs nor is paused; else it runs the falling phase
\* if the engine runs and is not paused, and asks to be called again
MainRunLoop ==
    /\ app.loop = "due"
    /\ IF ~game_running /\ ~game_paused
       THEN /\ app' = [app EXCEPT !.loop = "over"]
            /\ last' = Call("loop", "over", 0)
            /\ pm' = NoPM
            /\ UNCHANGED <<engine, draws, budget, quota, save_file>>
       ELSE IF game_running /\ ~game_paused
            THEN FallingPhase
            ELSE /\ last' = Call("loop", "skip", 0)
                 /\ pm' = NoPM
                 /\ UNCHANGED <<engine, draws, budget, quota, save_file, app>>

Next ==
    \/ StartGame
    \/ FallingPhase
    \/ MoveCurrentPiece
    \/ HardDrop
    \/ HoldSwap
    \/ TogglePauseGame
    \/ ResetState
    \/ AppStartGame
    \/ MainRunLoop

Spec == Init /\ [][Next]_vars

(***************************************************************************)
(* The randomizer over a long run: games are started only when none is     *)
(* running, pieces fall straight down.                                     *)
(***************************************************************************)
InitBag == Fresh(MaxDraws)

StartNewGame == ~game_running /\ StartGame

NextBag ==
    \/ StartNewGame
    \/ FallingPhase
    \/ HoldSwap
    \/ ResetState

SpecBag == InitBag /\ [][NextBag]_vars

(***************************************************************************)
(* The engine in the middle of a game: a piece has just been generated     *)
(* above a stack of locked pieces, and is played until it locks.  The      *)
(* stack is built of I pieces, each dropped straight down: MaxStack rows   *)
(* of two flat ones in columns 0..3 and 4..7, and an upright one in column *)
(* 8; column 9 is an open well.  No line was cleared yet, so the stats are *)
(* those after the first lock.  The queue and the bag are those after the  *)
(* first draw from a queue that began with the type of the piece.          *)
(***************************************************************************)
FlatI(col, row) == <<<<col, row>>, <<col + 1, row>>, <<col + 2, row>>, <<col + 3, row>>>>
UprightI(col, row) == <<<<col, row + 3>>, <<col, row + 2>>, <<col, row + 1>>, <<col, row>>>>

RECURSIVE StackGrid(_)
StackGrid(h) ==
    IF h = 0 THEN WriteBlocks(CreateGrid, UprightI(8, 0), "I", 1)
    ELSE WriteBlocks(WriteBlocks(StackGrid(h - 1), FlatI(0, h - 1), "I", 1),
                     FlatI(4, h - 1), "I", 1)

TypeIndex(t) == CHOOSE i \in 1..Len(Types) : Types[i] = t

InitPlay ==
    \E t \in TypeSet :
        LET d == Draw(Swap(Types, 1, TypeIndex(t)), <<>>, 0)
            gen == Generate(StackGrid(MaxStack), BlankPiece, t, <<>>)
        IN  /\ game_options = SetGameOptions(TRUE, TRUE)
            /\ grid = gen.grid
            /\ current_piece = gen.piece
            /\ next_queue = d.queue
            /\ bag = d.bag
            /\ hold_queue = NoHold
            /\ hold_available = TRUE
            /\ stats = CompletionStats(NewStats)
            /\ fallspeed = SetFallSpeed(CompletionStats(NewStats).level)
            /\ game_running = TRUE
            /\ game_paused = FALSE
            /\ draws = <<t>>
            /\ last = Call("start", "", 0)
            /\ pm = NoPM
            /\ quota = [gens |-> MaxPlayGen, holds |-> 0, rand |-> 0]
            /\ save_file = <<>>
            /\ app = NoApp
            /\ budget = [gens |-> MaxPlayGen, holds |-> 0, rand |-> 0]

NextPlay ==
    \/ FallingPhase
    \/ MoveCurrentPiece
    \/ HardDrop

SpecPlay == InitPlay /\ [][NextPlay]_vars

(***************************************************************************)
(* The engine near the end of a game: a piece has just been generated      *)
(* above a stack that reaches the skyline (row 20) or ends gap rows below  *)
(* it, and is played until it locks.  The stack is built of I pieces: flat *)
(* ones in columns 0..3 and 4..7, upright ones in column 8 up to row 19;   *)
(* column 9 is an open well.  TopLines lines were cleared before the stack *)
(* was built, at level 2.                                                  *)
(***************************************************************************)
TopGrid(h) ==
    [r \in 1..GridRows |->
        [c \in 1..GridCols |->
            IF (c <= 8 /\ r <= h) \/ (c = 9 /\ r <= GridRows - 2)
            THEN GridPieceMap("I")
            ELSE 0]]

InitTop ==
    \E t \in TypeSet, gap \in 0..MaxGap :
        LET d == Draw(Swap(Types, 1, TypeIndex(t)), <<>>, 0)
            gen == Generate(TopGrid(GridRows - 2 - gap), BlankPiece, t, <<>>)
            st == [CompletionStats(NewStats) EXCEPT !.lines = TopLines]
        IN  /\ game_options = SetGameOptions(TRUE, TRUE)
            /\ grid = gen.grid
            /\ current_piece = gen.piece
            /\ next_queue = d.queue
            /\ bag = d.bag
            /\ hold_queue = NoHold
            /\ hold_available = TRUE
            /\ stats = st
            /\ fallspeed = SetFallSpeed(st.level)
            /\ game_running = TRUE
            /\ game_paused = FALSE
            /\ draws = <<t>>
            /\ last = Call("start", "", 0)
            /\ pm = NoPM
            /\ quota = [gens |-> MaxPlayGen, holds |-> 0, rand |-> 0]
            /\ save_file = <<>>
            /\ app = NoApp
            /\ budget = [gens |-> MaxPlayGen, holds |-> 0, rand |-> 0]

NextTop ==
    \/ FallingPhase
    \/ MoveCurrentPiece
    \/ HardDrop

SpecTop == InitTop /\ [][NextTop]_vars

(***************************************************************************)
(* Hold over a few pieces of a game: the game is started from              *)
(* construction, the player holds, sets the options and hard-drops; the    *)
(* tick comes when the piece has landed.                                   *)
(***************************************************************************)
InitHold ==
    \E s \in InitNextQueue :
        /\ Constructed(s.queue)
        /\ draws = <<>>
        /\ last = Call("init", "", 0)
        /\ pm = NoPM
        /\ quota = [gens |-> MaxHoldGen, holds |-> MaxSwaps, rand |-> MaxRand]
        /\ save_file = <<>>
        /\ app = NoApp
        /\ budget = [gens |-> MaxHoldGen, holds |-> MaxSwaps,
                     rand |-> MaxRand - s.cost]

HoldInGame == game_running /\ HoldSwap

LockDown == game_running /\ ~CheckMovementPossible(grid, current_piece, "D") /\ FallingPhase

HardDropInGame == game_running /\ HardDrop

NextHold ==
    \/ StartNewGame
    \/ HoldInGame
    \/ HardDropInGame
    \/ LockDown
    \/ SetOptions

SpecHold == InitHold /\ [][NextHold]_vars

(***************************************************************************)
(* The engine at the skyline: a piece has just been generated above a      *)
(* stack that reaches row 19 under the spawn area and leaves column 9 open *)
(* below its top, and is played until it locks.  On the ledge, row 19      *)
(* lacks only column 8 and rows 20 and 21 are empty; at the brim, the      *)
(* columns beside the spawn area (0..3, 8 and 9) reach row 20, put there   *)
(* by pieces that also had blocks below it.  The stats are those of        *)
(* InitTop.                                                                *)
(***************************************************************************)
SkyKinds == {"ledge", "brim"}

SkyGrid(kind) ==
    [r \in 1..GridRows |->
        [c \in 1..GridCols |->
            IF kind = "ledge"
            THEN IF \/ (c <= 8 /\ r <= 20)
                    \/ (c = 9 /\ r <= 19)
                    \/ (c = 10 /\ r = 20)
                 THEN GridPieceMap("I") ELSE 0
            ELSE IF \/ (c <= 4 /\ r <= 21)
                    \/ (c \in 5..8 /\ r <= 20)
                    \/ (c = 9 /\ r <= 21)
                    \/ (c = 10 /\ r = 21)
                 THEN GridPieceMap("I") ELSE 0]]

InitSky ==
    \E t \in TypeSet, kind \in SkyKinds :
        LET d == Draw(Swap(Types, 1, TypeIndex(t)), <<>>, 0)
            gen == Generate(SkyGrid(kind), BlankPiece, t, <<>>)
            st == [CompletionStats(NewStats) EXCEPT !.lines = TopLines]
        IN  /\ game_options = SetGameOptions(TRUE, TRUE)
            /\ grid = gen.grid
            /\ current_piece = gen.piece
            /\ next_queue = d.queue
            /\ bag = d.bag
            /\ hold_queue = NoHold
            /\ hold_available = TRUE
            /\ stats = st
            /\ fallspeed = SetFallSpeed(st.level)
            /\ game_running = TRUE
            /\ game_paused = FALSE
            /\ draws = <<t>>
            /\ last = Call("start", "", 0)
            /\ pm = NoPM
            /\ quota = [gens |-> MaxPlayGen, holds |-> 0, rand |-> 0]
            /\ save_file = <<>>
            /\ app = NoApp
            /\ budget = [gens |-> MaxPlayGen, holds |-> 0, rand |-> 0]

NextSky ==
    \/ FallingPhase
    \/ MoveCurrentPiece
    \/ HardDrop

SpecSky == InitSky /\ [][NextSky]_vars

(***************************************************************************)
(* The calls of a game without pause and reset: from construction, the     *)
(* game is started, the piece is dropped and held and the tick comes at    *)
(* any time, the piece of a running game is moved and turned.              *)
(***************************************************************************)
\* the engine after construction, its queue shuffled to begin with type t
InitSync ==
    \E t \in TypeSet :
        /\ Constructed(Swap(Types, 1, TypeIndex(t)))
        /\ draws = <<>>
        /\ last = Call("init", "", 0)
        /\ pm = NoPM
        /\ quota = [gens |-> MaxGen, holds |-> MaxHolds, rand |-> 0]
        /\ save_file = <<>>
        /\ app = NoApp
        /\ budget = [gens |-> MaxGen, holds |-> MaxHolds, rand |-> 0]

MoveInGame == game_running /\ MoveCurrentPiece

NextSync ==
    \/ StartGame
    \/ FallingPhase
    \/ MoveInGame
    \/ HardDrop
    \/ HoldSwap

SpecSync == InitSync /\ [][NextSync]_vars

(***************************************************************************)
(* Save and load over the first pieces of a game: from construction, the   *)
(* game is started, the piece is held and hard-dropped, the tick comes     *)
(* when it has landed, and the game is saved and loaded at any time.       *)
(***************************************************************************)
InitSave ==
    /\ Constructed(Types)
    /\ draws = <<>>
    /\ last = Call("init", "", 0)
    /\ pm = NoPM
    /\ quota = [gens |-> MaxSaveGen, holds |-> MaxHolds, rand |-> 0]
    /\ budget = [gens |-> MaxSaveGen, holds |-> MaxHolds, rand |-> 0]
    /\ save_file = <<>>
    /\ app = NoApp

NextSave ==
    \/ StartNewGame
    \/ HoldInGame
    \/ HardDropInGame
    \/ LockDown
    \/ SaveGame
    \/ LoadGame

SpecSave == InitSave /\ [][NextSave]_vars

(***************************************************************************)
(* The application as it is run: the Start button, the keys of the matrix  *)
(* and the Escape key.  No step of it makes a call of _main_run_loop due.  *)
(***************************************************************************)
NextApp ==
    \/ AppStartGame
    \/ MoveCurrentPiece
    \/ HardDrop
    \/ HoldSwap
    \/ TogglePauseGame

SpecApp == InitSave /\ [][NextApp]_vars

(***************************************************************************)
(* Games played one after the other: as SpecHold, and the engine is reset  *)
(* at any time.                                                            *)
(***************************************************************************)
NextReset ==
    \/ StartNewGame
    \/ HoldInGame
    \/ HardDropInGame
    \/ LockDown
    \/ SetOptions
    \/ ResetState

SpecReset == InitHold /\ [][NextReset]_vars

(***************************************************************************)
(* A game that is paused and resumed: as SpecPlay, and the player pauses,  *)
(* resumes and holds at any time; the engine is called whether the game is *)
(* paused or not.                                                          *)
(***************************************************************************)
InitPause ==
    \E t \in TypeSet :
        LET d == Draw(Swap(Types, 1, TypeIndex(t)), <<>>, 0)
            gen == Generate(StackGrid(MaxStack), BlankPiece, t, <<>>)
        IN  /\ game_options = SetGameOptions(TRUE, TRUE)
            /\ grid = gen.grid
            /\ current_piece = gen.piece
            /\ next_queue = d.queue
            /\ bag = d.bag
            /\ hold_queue = NoHold
            /\ hold_available = TRUE
            /\ stats = CompletionStats(NewStats)
            /\ fallspeed = SetFallSpeed(CompletionStats(NewStats).level)
            /\ game_running = TRUE
            /\ game_paused = FALSE
            /\ draws = <<t>>
            /\ last = Call("start", "", 0)
            /\ pm = NoPM
            /\ quota = [gens |-> MaxPlayGen, holds |-> MaxHolds, rand |-> 0]
            /\ budget = [gens |-> MaxPlayGen, holds |-> MaxHolds, rand |-> 0]
            /\ save_file = <<>>
            /\ app = NoApp

NextPause ==
    \/ FallingPhase
    \/ MoveCurrentPiece
    \/ HardDrop
    \/ HoldSwap
    \/ TogglePauseGame

SpecPause == InitPause /\ [][NextPause]_vars

(***************************************************************************)
(* The engine after the end of a game: as SpecTop with the stack at the    *)
(* skyline, and the player goes on pressing keys after the end: the piece  *)
(* is held, the game is paused and resumed, and the tick keeps coming.     *)
(***************************************************************************)
OverTypes == {"I", "O", "T"}

InitOver ==
    \E t \in OverTypes :
        LET d == Draw(Swap(Types, 1, TypeIndex(t)), <<>>, 0)
            gen == Generate(TopGrid(GridRows - 2), BlankPiece, t, <<>>)
            st == [CompletionStats(NewStats) EXCEPT !.lines = TopLines]
        IN  /\ game_options = SetGameOptions(TRUE, TRUE)
            /\ grid = gen.grid
            /\ current_piece = gen.piece
            /\ next_queue = d.queue
            /\ bag = d.bag
            /\ hold_queue = NoHold
            /\ hold_available = TRUE
            /\ stats = st
            /\ fallspeed = SetFallSpeed(st.level)
            /\ game_running = TRUE
            /\ game_paused = FALSE
            /\ draws = <<t>>
            /\ last = Call("start", "", 0)
            /\ pm = NoPM
            /\ quota = [gens |-> MaxOverGen, holds |-> MaxHolds, rand |-> 0]
            /\ budget = [gens |-> MaxOverGen, holds |-> MaxHolds, rand |-> 0]
            /\ save_file = <<>>
            /\ app = NoApp

HoldAfterEnd == ~game_running /\ HoldSwap

PauseAfterEnd == ~game_running /\ TogglePauseGame

NextOver ==
    \/ FallingPhase
    \/ MoveCurrentPiece
    \/ HardDrop
    \/ HoldAfterEnd
    \/ PauseAfterEnd

SpecOver == InitOver /\ [][NextOver]_vars

(***************************************************************************)
(* What the claims speak of, stated from their words.                      *)
(***************************************************************************)
\* the cells are in the grid and none is a locked block of another piece
\* than the one whose blocks are own
ClaimFree(g, own, cells) ==
    \A i \in 1..4 :
        /\ cells[i][1] >= 0 /\ cells[i][1] < 10
        /\ cells[i][2] >= 0 /\ cells[i][2] < 22
        /\ (g[cells[i][2] + 1][cells[i][1] + 1] \in 1..7 => cells[i] \in {own[j] : j \in 1..4})

ClaimDelta(d) == CASE d = "D" -> <<0, -1>> [] d = "L" -> <<-1, 0>> [] d = "R" -> <<1, 0>>

ClaimTargets(blocks, d) ==
    [i \in 1..4 |-> <<blocks[i][1] + ClaimDelta(d)[1], blocks[i][2] + ClaimDelta(d)[2]>>]

ClaimMoveLegal(g, blocks, d) == ClaimFree(g, blocks, ClaimTargets(blocks, d))

ClaimPivot(t) == IF t = "I" THEN 2 ELSE IF t = "S" THEN 4 ELSE 3

\* clockwise N -> E -> S -> W -> N, counter-clockwise N -> W -> S -> E -> N
ClaimTurn(f, cw) ==
    IF cw THEN (CASE f = "N" -> "E" [] f = "E" -> "S" [] f = "S" -> "W" [] f = "W" -> "N")
    ELSE (CASE f = "N" -> "W" [] f = "W" -> "S" [] f = "S" -> "E" [] f = "E" -> "N")

\* every block turned by 90 degrees about the pivot block
ClaimCandidates(piece, cw) ==
    LET pv == piece.blocks[ClaimPivot(piece.type)]
    IN  [i \in 1..4 |->
            LET dx == piece.blocks[i][1] - pv[1]
                dy == piece.blocks[i][2] - pv[2]
            IN  IF cw THEN <<pv[1] + dy, pv[2] - dx>> ELSE <<pv[1] - dy, pv[2] + dx>>]

\* the candidates moved by kick k = offset[k][old_facing] - offset[k][new_facing]
ClaimKicked(piece, cw, k) ==
    LET old == Offsets(piece.type, k, piece.facing)
        new == Offsets(piece.type, k, ClaimTurn(piece.facing, cw))
        c == ClaimCandidates(piece, cw)
    IN  [i \in 1..4 |-> <<c[i][1] + old[1] - new[1], c[i][2] + old[2] - new[2]>>]

ClaimKickLegal(g, piece, cw, k) == ClaimFree(g, piece.blocks, ClaimKicked(piece, cw, k))

ClaimRowFull(row) == \A c \in 1..10 : row[c] \in 1..7

\* the grid without its full rows, and as many empty rows on top
ClaimCompacted(g) ==
    LET kept == SelectSeq(g, LAMBDA row : ~ClaimRowFull(row))
    IN  kept \o [i \in 1..(Len(g) - Len(kept)) |-> [c \in 1..10 |-> 0]]

ClaimFullRows(g) == {r \in 1..Len(g) : ClaimRowFull(g[r])}

IsMove == last.op = "move" /\ last.arg \in {"L", "R", "D"}
IsRotation == last.op = "move" /\ last.arg \in {"C", "A"}

(***************************************************************************)
(* The claims.                                                             *)
(***************************************************************************)
\* C1: in the sequence of the types drawn from the randomizer since
\* construction or reset, the draws 7k+1 .. 7k+7 are pairwise different for
\* every k, and once all seven are made they are the seven types.
C1_DrawsArePermutations ==
    \A k \in 0..(Len(draws) \div 7) :
        LET group == {i \in 1..Len(draws) : (i - 1) \div 7 = k}
        IN  /\ \A i, j \in group : i # j => draws[i] # draws[j]
            /\ Cardinality(group) = 7 => {draws[i] : i \in group} = TypeSet

\* two groups of seven are complete and a third is begun; the run drew by
\* start_game, by the lock phase and by hold_swap
C1_Witness ==
    /\ Len(draws) >= 15
    /\ hold_queue \in TypeSet
    /\ stats.level > 1

\* C2: next_queue always holds exactly 6 entries.
C2_NextQueueHoldsSix == Len(next_queue) = 6

\* C3: move(direction) translates all four blocks of the active piece by
\* the delta of the direction if and only if every translated block is in
\* the grid and on no locked block of another piece; the piece keeps its
\* four blocks and never ends out of bounds or on a foreign locked block.
C3_MoveIffLegal ==
    [][IsMove' =>
        /\ ClaimMoveLegal(grid, current_piece.blocks, last'.arg)
             <=> current_piece'.blocks = ClaimTargets(current_piece.blocks, last'.arg)
        /\ Len(current_piece'.blocks) = 4
        /\ ClaimFree(grid, current_piece.blocks, current_piece'.blocks)]_vars

\* the piece was moved down inside the well beside the stack
C3_Witness ==
    /\ last = Call("move", "D", 1)
    /\ grid[1][9] \in 1..7
    /\ \A i \in 1..4 : current_piece.blocks[i][1] = 9
    /\ \E i \in 1..4 : current_piece.blocks[i][2] = 0

\* C4: an illegal move(direction) changes nothing of the engine.
C4_IllegalMoveIsNoOp ==
    [][(IsMove' /\ ~ClaimMoveLegal(grid, current_piece.blocks, last'.arg))
        => UNCHANGED engine]_vars

\* a move to the left was refused away from the wall, by a locked block
C4_Witness ==
    /\ last = Call("move", "L", 0)
    /\ \A i \in 1..4 : current_piece.blocks[i][1] > 0
    /\ ~ClaimMoveLegal(grid, current_piece.blocks, "L")

\* C5: a rotation of a piece other than O turns the blocks about the pivot
\* block of the type and applies the first of the kicks 1..5 that leaves
\* all four cells in the grid and free of foreign locked blocks: the new
\* blocks are the candidates moved by that kick.
C5_FirstLegalKickIsApplied ==
    [][(IsRotation' /\ current_piece.type \in TypeSet \ {"O"}) =>
        \A k \in 1..5 :
            (/\ ClaimKickLegal(grid, current_piece, last'.arg = "C", k)
             /\ \A j \in 1..(k - 1) : ~ClaimKickLegal(grid, current_piece, last'.arg = "C", j))
            => current_piece'.blocks = ClaimKicked(current_piece, last'.arg = "C", k)]_vars

\* a rotation was applied with a kick after the first
C5_Witness == IsRotation /\ last.res >= 3

\* C6: after every successful rotation the facing of the active piece is
\* the adjacent facing in the direction rotated.
C6_FacingFollowsRotation ==
    [][(IsRotation' /\ current_piece'.blocks # current_piece.blocks)
        => current_piece'.facing = ClaimTurn(current_piece.facing, last'.arg = "C")]_vars

\* C7: if none of the five kicks of a rotation is legal, the rotation
\* changes nothing of the engine.
C7_RejectedRotationIsNoOp ==
    [][(/\ IsRotation'
        /\ current_piece.type \in TypeSet \ {"O"}
        /\ \A k \in 1..5 : ~ClaimKickLegal(grid, current_piece, last'.arg = "C", k))
        => UNCHANGED engine]_vars

\* a rotation of a piece other than O was rejected, every kick being illegal
C7_Witness ==
    /\ IsRotation
    /\ last.res = 0
    /\ current_piece.type \in TypeSet \ {"O"}
    /\ \A k \in 1..5 : ~ClaimKickLegal(grid, current_piece, last.arg = "C", k)

\* C8: rotating the O piece, clockwise or counter-clockwise, changes
\* nothing of the engine.
C8_RotatingOIsNoOp ==
    [][(IsRotation' /\ current_piece.type = "O") => UNCHANGED engine]_vars

\* the O piece was rotated while it lay against the left wall
C8_Witness ==
    /\ IsRotation
    /\ current_piece.type = "O"
    /\ \E i \in 1..4 : current_piece.blocks[i][1] = 0

\* C9: pattern match removes exactly the full rows: the other rows keep
\* their order and move down, and as many empty rows are added on top.
C9_PatternMatchRemovesFullRows ==
    pm.locked => pm.after = ClaimCompacted(pm.before)

\* C10: on every lock the lines cleared stat increases by the number of
\* rows that were full when pattern match ran.
C10_LinesCountFullRows ==
    pm.locked => stats.lines = pm.lines + Cardinality(ClaimFullRows(pm.before))

\* a lock found two or more rows full
C10_Witness ==
    /\ pm.locked
    /\ Cardinality(ClaimFullRows(pm.before)) >= 2
    /\ stats.lines > pm.lines

IsLock == last.op = "tick" /\ last.arg = "lock"

\* C11: in the completion phase of a lock, if the lines cleared have reached
\* the goal the level rises by exactly 1 and the goal by 5 times the new
\* level, else level and goal are unchanged; the first lock of a fresh
\* engine (level 1, goal 0, lines 0) gives level 2 and goal 10.
C11_LevelUpAtGoal ==
    [][IsLock' =>
        /\ IF stats'.lines >= stats.goal
           THEN /\ stats'.level = stats.level + 1
                /\ stats'.goal = stats.goal + 5 * stats'.level
           ELSE /\ stats'.level = stats.level
                /\ stats'.goal = stats.goal
        /\ LET first == CompletionStats(PatternMatchStats(NewStats, <<>>))
           IN  first.level = 2 /\ first.goal = 10]_vars

\* a lock cleared the lines that were missing to the goal of level 2
C11_Witness ==
    /\ IsLock
    /\ pm.lines < 10
    /\ stats.lines >= 10
    /\ stats.level = 3
    /\ stats.goal = 25

ClaimSpawnZone(b) == (b[2] = 20 /\ b[1] \in 4..7) \/ (b[2] = 21 /\ b[1] \in 4..6)

ClaimLockedOut(blocks) ==
    \/ \E i \in 1..4 : ClaimSpawnZone(blocks[i])
    \/ \A i \in 1..4 : blocks[i][2] >= 20

\* C12: after a lock, running is false if some block of the piece that
\* locked is in the spawn zone or all its four blocks are at row 20 or above;
\* in every other case running keeps its value.
C12_GameOverIffLockedOut ==
    [][IsLock' =>
        game_running' = (game_running /\ ~ClaimLockedOut(current_piece.blocks))]_vars

\* a piece locked above the skyline beside the spawn zone and ended the game
C12_Witness ==
    /\ IsLock
    /\ ~game_running
    /\ \A i \in 1..4 : pm.piece.blocks[i][2] >= 20 /\ ~ClaimSpawnZone(pm.piece.blocks[i])
    /\ current_piece = pm.piece

\* the piece is a new piece of type t: facing N, at the spawn layout of the
\* type or one row below it
ClaimSpawned(piece, t) ==
    /\ piece.type = t
    /\ piece.facing = "N"
    /\ \E down \in {0, 1} :
        piece.blocks = [i \in 1..4 |-> <<SpawnBlocks(t)[i][1], SpawnBlocks(t)[i][2] - down>>]

\* the queue lost its front entry and gained at its back an entry taken out
\* of the bag (refilled with the seven types if it was empty)
ClaimAdvanced(q, b, q2, b2) ==
    LET from == IF b = <<>> THEN <<"O", "I", "T", "L", "J", "S", "Z">> ELSE b
    IN  /\ Len(q2) = Len(q)
        /\ \A i \in 1..(Len(q) - 1) : q2[i] = q[i + 1]
        /\ \E k \in 1..Len(from) :
            /\ q2[Len(q2)] = from[k]
            /\ b2 = [i \in 1..(Len(from) - 1) |-> IF i < k THEN from[i] ELSE from[i + 1]]

\* C13: a tick on which the piece cannot move down makes hold available,
\* then counts the full rows into the lines stat, then levels up on the new
\* lines stat and checks for game over; a new piece is generated from the
\* front of next_queue if and only if running is still true, and on game
\* over the piece, next_queue and bag are left as they were.
C13_LockPipeline ==
    [][IsLock' =>
        /\ ~ClaimMoveLegal(grid, current_piece.blocks, "D")
        /\ hold_available'
        /\ stats'.lines = stats.lines + Cardinality(ClaimFullRows(grid))
        /\ stats'.level = stats.level + (IF stats'.lines >= stats.goal THEN 1 ELSE 0)
        /\ game_running' = (game_running /\ ~ClaimLockedOut(current_piece.blocks))
        /\ IF game_running'
           THEN /\ ClaimSpawned(current_piece', Head(next_queue))
                /\ ClaimAdvanced(next_queue, bag, next_queue', bag')
           ELSE /\ current_piece' = current_piece
                /\ next_queue' = next_queue
                /\ bag' = bag]_vars

\* a lock cleared rows, the game went on and the next piece was generated
C13_Witness ==
    /\ IsLock
    /\ game_running
    /\ stats.lines > pm.lines
    /\ Len(draws) = 2
    /\ current_piece.type = draws[2]

IsTick == last.op = "tick"

\* C14: a tick on which the piece can move down moves every block down by
\* exactly one row and does nothing else: no lock, no pattern match, and
\* stats, hold slot, hold availability, next_queue, bag and running are
\* unchanged.
C14_TickFallsOneRow ==
    [][(IsTick' /\ ClaimMoveLegal(grid, current_piece.blocks, "D")) =>
        /\ current_piece'.blocks = ClaimTargets(current_piece.blocks, "D")
        /\ current_piece'.type = current_piece.type
        /\ current_piece'.facing = current_piece.facing
        /\ ~IsLock'
        /\ ~pm'.locked
        /\ UNCHANGED <<stats, hold_queue, hold_available, next_queue, bag,
                       game_running, game_paused, fallspeed, game_options>>]_vars

\* a tick moved the piece down into the well beside the stack
C14_Witness ==
    /\ last = Call("tick", "fall", 1)
    /\ \E i \in 1..4 : current_piece.blocks[i] = <<9, 1>>
    /\ grid[2][9] \in 1..7

IsHardDrop == last.op = "hard_drop"

ClaimLowered(blocks, n) == [i \in 1..4 |-> <<blocks[i][1], blocks[i][2] - n>>]

\* C15: hard_drop leaves the piece in the same columns at the lowest
\* position that repeated down moves reach, where it cannot move down, and
\* does not lock: hold availability, stats, next_queue, bag, running and the
\* type of the piece are unchanged and no piece is generated.
C15_HardDropLandsWithoutLock ==
    [][IsHardDrop' =>
        /\ \E n \in 0..21 :
            /\ current_piece'.blocks = ClaimLowered(current_piece.blocks, n)
            /\ \A k \in 1..n :
                ClaimFree(grid, current_piece.blocks, ClaimLowered(current_piece.blocks, k))
        /\ ~ClaimMoveLegal(grid', current_piece'.blocks, "D")
        /\ current_piece'.type = current_piece.type
        /\ current_piece'.facing = current_piece.facing
        /\ ~pm'.locked
        /\ UNCHANGED <<stats, hold_queue, hold_available, next_queue, bag,
                       game_running, game_paused, fallspeed, game_options, draws>>]_vars

\* the I piece was hard-dropped to the bottom of the well
C15_Witness ==
    /\ IsHardDrop
    /\ current_piece.type = "I"
    /\ \A i \in 1..4 : current_piece.blocks[i][1] = 9
    /\ \E i \in 1..4 : current_piece.blocks[i][2] = 0
    /\ ~pm.locked

IsHold == last.op = "hold"

\* C16: a piece can be sent to hold at most once per lock cycle: a hold
\* makes hold unavailable, nothing but a lock makes it available again, a
\* hold while it is unavailable changes nothing of the engine, and the lock
\* phase makes it available.
C16_HoldOncePerLock ==
    [][/\ (IsHold' /\ hold_available) => ~hold_available'
       /\ (IsHold' /\ ~hold_available) => UNCHANGED engine
       /\ (~hold_available /\ ~IsLock') => ~hold_available'
       /\ IsLock' => hold_available']_vars

\* in the second lock cycle of a game, a hold was refused after a hold
C16_Witness ==
    /\ last = Call("hold", "unavailable", 0)
    /\ hold_queue \in TypeSet
    /\ stats.level = 2
    /\ budget.holds = 0

\* a hold that the engine may take: hold is available and switched on, and
\* there is an active piece
ClaimMayHold ==
    /\ hold_available
    /\ game_options.hold_queue
    /\ current_piece.type \in {"O", "I", "T", "L", "J", "S", "Z"}

\* C17: hold with an occupied hold slot swaps the types without consuming
\* the randomizer: the hold slot holds the type of the former active piece,
\* the active piece is a freshly spawned piece of the formerly held type,
\* and next_queue and bag are as before.
C17_HoldSwapsWithoutDraw ==
    [][(IsHold' /\ ClaimMayHold /\ hold_queue \in {"O", "I", "T", "L", "J", "S", "Z"}) =>
        /\ hold_queue' = current_piece.type
        /\ ClaimSpawned(current_piece', hold_queue)
        /\ next_queue' = next_queue
        /\ bag' = bag
        /\ draws' = draws]_vars

\* the active piece was swapped with a held piece of another type
C17_Witness ==
    /\ last = Call("hold", "swap", 0)
    /\ game_options.hold_queue
    /\ hold_queue \in TypeSet
    /\ current_piece.type \in TypeSet \ {hold_queue}
    /\ Len(draws) = 3

ClaimCells(blocks) == {blocks[i] : i \in 1..4}

\* C18: hold with an empty hold slot stores the type of the active piece in
\* the hold slot, removes the footprint of the old piece from the grid (and
\* changes no other cell but those of the new piece), and spawns a piece of
\* the type at the front of next_queue; next_queue loses its front entry
\* and gains one entry drawn from the bag.
C18_HoldEmptySlotDraws ==
    [][(IsHold' /\ ClaimMayHold /\ hold_queue = NoHold) =>
        /\ hold_queue' = current_piece.type
        /\ ClaimSpawned(current_piece', Head(next_queue))
        /\ ClaimAdvanced(next_queue, bag, next_queue', bag')
        /\ \A r \in 0..21, c \in 0..9 :
            IF <<c, r>> \in ClaimCells(current_piece'.blocks)
            THEN grid'[r + 1][c + 1] \in 1..7
            ELSE IF <<c, r>> \in ClaimCells(current_piece.blocks)
            THEN grid'[r + 1][c + 1] = 0
            ELSE grid'[r + 1][c + 1] = grid[r + 1][c + 1]]_vars

\* after a piece had locked, the active piece went to the empty hold slot
\* and the next piece was drawn
C18_Witness ==
    /\ last = Call("hold", "draw", 0)
    /\ hold_queue \in TypeSet
    /\ Len(draws) = 3
    /\ stats.level = 2
    /\ \A r \in 3..18, c \in 0..9 : grid[r + 1][c + 1] = 0

\* C19: when the hold option was turned off with set_game_options, a hold
\* leaves the hold slot, the active piece, the grid and next_queue unchanged.
C19_HoldOffMeansNoHold ==
    [][(IsHold' /\ ~game_options.hold_queue) =>
        UNCHANGED <<hold_queue, current_piece, grid, next_queue>>]_vars

\* the call generated a piece
IsGeneration ==
    \/ last.op = "start"
    \/ IsLock /\ game_running
    \/ IsHold /\ last.arg # "unavailable"

\* C20: generation builds the active piece with facing N at the spawn
\* layout of its type (rows 20 and 21, columns 4..7), writes it into the
\* grid, and then moves it down by exactly one row if and only if that down
\* move is legal; on an empty grid the piece starts one row below its layout.
\* The grid the piece is generated on is the grid of the call, after the
\* rows of a lock were cleared or the held piece was taken out.  The type is
\* one of the seven: a swap with a hold queue that holds no type (the blank
\* piece was held before any game began) has no spawn layout to build.
C20_GenerationSpawnsAndDrops ==
    [][(/\ IsGeneration'
        /\ last'.arg = "swap" => hold_queue \in {"O", "I", "T", "L", "J", "S", "Z"}) =>
        LET layout == SpawnBlocks(current_piece'.type)
            on == IF IsLock' THEN pm'.after
                  ELSE IF IsHold'
                  THEN [r \in 1..22 |-> [c \in 1..10 |->
                           IF <<c - 1, r - 1>> \in ClaimCells(current_piece.blocks)
                           THEN 0 ELSE grid[r][c]]]
                  ELSE grid
            legal == ClaimFree(on, layout, ClaimLowered(layout, 1))
        IN  /\ current_piece'.type \in {"O", "I", "T", "L", "J", "S", "Z"}
            /\ current_piece'.facing = "N"
            /\ \A i \in 1..4 : layout[i][1] \in 4..7 /\ layout[i][2] \in {20, 21}
            /\ current_piece'.blocks = IF legal THEN ClaimLowered(layout, 1) ELSE layout
            /\ \A i \in 1..4 :
                grid'[current_piece'.blocks[i][2] + 1][current_piece'.blocks[i][1] + 1] \in 1..7
            /\ on = [r \in 1..22 |-> [c \in 1..10 |-> 0]]
                => current_piece'.blocks = ClaimLowered(layout, 1)]_vars

\* a piece was generated on a stack that left it no room to move down, and
\* stayed at its spawn layout
C20_Witness ==
    /\ IsLock
    /\ game_running
    /\ current_piece.blocks = SpawnBlocks(current_piece.type)
    /\ Len(draws) >= 8

\* the grid a call generated its piece on: the grid of the call, after the
\* rows of a lock were cleared or the held piece was taken out
ClaimGeneratedOn ==
    IF IsLock' THEN pm'.after
    ELSE IF IsHold'
    THEN [r \in 1..22 |-> [c \in 1..10 |->
             IF <<c - 1, r - 1>> \in ClaimCells(current_piece.blocks)
             THEN 0 ELSE grid[r][c]]]
    ELSE grid

\* the cells of the active piece of the call that are not locked blocks:
\* a lock locks the piece and a hold takes it out of the grid before the new
\* piece is generated, a start finds the piece of the last call in the grid,
\* which is locked if that call was a lock that ended the game
ClaimUnlocked ==
    IF last'.op = "start" /\ ~(IsLock /\ ~game_running)
    THEN ClaimCells(current_piece.blocks)
    ELSE {}

\* a cell of the spawn layout of type t holds a locked block in grid g
ClaimObstructed(g, t, unlocked) ==
    \E i \in 1..4 :
        /\ g[SpawnBlocks(t)[i][2] + 1][SpawnBlocks(t)[i][1] + 1] \in 1..7
        /\ SpawnBlocks(t)[i] \notin unlocked

\* C21: if, when a piece is generated, a cell of its spawn layout already
\* holds a locked block and no part of the piece is below row 20, the game
\* is over: running is false after the call.
C21_ObstructedSpawnIsTerminal ==
    [][(/\ IsGeneration'
        /\ current_piece'.type \in {"O", "I", "T", "L", "J", "S", "Z"}
        /\ ClaimObstructed(ClaimGeneratedOn, current_piece'.type, ClaimUnlocked)
        /\ \A i \in 1..4 : current_piece'.blocks[i][2] >= 20)
       => ~game_running']_vars

\* C22: the grid and the active piece never desynchronize: in every state
\* where running is true, each of the four block coordinates (col, row) of
\* the active piece has grid[row][col] equal to the value 1..7 of the type of
\* the piece.
C22_GridHoldsActivePiece ==
    game_running =>
        \A i \in 1..4 :
            LET b == current_piece.blocks[i]
            IN  /\ b[1] \in 0..9 /\ b[2] \in 0..21
                /\ grid[b[2] + 1][b[1] + 1] \in 1..7
                /\ grid[b[2] + 1][b[1] + 1] = GridPieceMap(current_piece.type)

\* a running game whose piece was turned with a kick and is in the grid
C22_Witness ==
    /\ game_running
    /\ IsRotation
    /\ last.res >= 2
    /\ \A i \in 1..4 :
        grid[current_piece.blocks[i][2] + 1][current_piece.blocks[i][1] + 1]
            = GridPieceMap(current_piece.type)

\* the cells of the active piece before the call, which the call may change:
\* none when the call locks the piece
ClaimActiveCells ==
    IF IsLock' THEN {}
    ELSE IF last'.op = "start" THEN ClaimUnlocked
    ELSE ClaimCells(current_piece.blocks)

\* the grid of the call before it spawned or moved a piece: after the rows
\* of a lock were cleared
ClaimBeforeSpawn == IF IsLock' THEN pm'.after ELSE grid

\* C23: a cell holding a block of a locked piece is changed only by line
\* clearing: no spawn (from the randomizer at a start or after a lock, or
\* from hold), move, rotation or hard drop changes a cell that held a locked
\* block before it.
C23_LockedBlocksStay ==
    [][last'.op \in {"start", "tick", "move", "hard_drop", "hold"} =>
        \A r \in 1..22, c \in 1..10 :
            (/\ ClaimBeforeSpawn[r][c] \in 1..7
             /\ <<c - 1, r - 1>> \notin ClaimActiveCells)
            => grid'[r][c] = ClaimBeforeSpawn[r][c]]_vars

\* C24: rows 20 and 21 are never included in line-clear scans: the pattern
\* match of a lock neither removes nor counts row 20 or row 21, even when all
\* ten of its cells hold locked values; the lines counted are the full rows
\* among rows 0..19.
C24_BufferRowsAreNotScanned ==
    [][IsLock' =>
        /\ \A k \in 1..Len(pm'.rows) : pm'.rows[k] \notin {20, 21}
        /\ stats'.lines - pm'.lines =
               Cardinality({r \in 1..20 : ClaimRowFull(pm'.before[r])})]_vars

\* C25: round trip: save followed by load of the saved file on an engine
\* that was not modified in between completes and leaves the grid, the
\* active piece, the hold slot, the next queue and the stats as they were
\* when saved, also when the hold slot is empty.
C25_SaveLoadRoundTrip ==
    [][(last.op = "save" /\ last'.op = "load" /\ last'.arg = "saved") =>
        /\ last.res = 1
        /\ last'.res = 8
        /\ grid' = grid
        /\ current_piece' = current_piece
        /\ hold_queue' = hold_queue
        /\ next_queue' = next_queue
        /\ stats' = stats]_vars

\* C26: load is all-or-nothing: if a field line of the file fails to parse
\* or is missing, no engine field (active piece, hold slot, next queue,
\* stats, options, grid) has been changed by the load.
C26_FailedLoadChangesNothing ==
    [][(last'.op = "load" /\ last'.res < 8) =>
        UNCHANGED <<current_piece, hold_queue, next_queue, stats, game_options, grid>>]_vars

\* C27: reset reinitializes everything: after reset_state every engine field
\* has its value in a freshly constructed engine: an empty 22x10 grid, the
\* blank active piece, stats of score 0, lines 0, level 1, goal 0, running
\* and paused false, the hold slot empty and available, the bag empty,
\* next_queue a permutation of the seven types, fall speed 1000 and the game
\* options at their defaults.
C27_ResetReinitializesEverything ==
    [][last'.op = "reset" =>
        /\ grid' = [r \in 1..22 |-> [c \in 1..10 |-> 0]]
        /\ current_piece' = [type |-> "", facing |-> "",
                             blocks |-> <<<<0, 0>>, <<0, 0>>, <<0, 0>>, <<0, 0>>>>]
        /\ stats' = [score |-> 0, lines |-> 0, level |-> 1, goal |-> 0]
        /\ ~game_running'
        /\ ~game_paused'
        /\ hold_queue' = NoHold
        /\ hold_available'
        /\ bag' = <<>>
        /\ Len(next_queue') = 7
        /\ {next_queue'[i] : i \in 1..7} = {"O", "I", "T", "L", "J", "S", "Z"}
        /\ fallspeed' = 1000
        /\ game_options' = [hold_queue |-> TRUE, ghost_piece |-> TRUE,
                            lock_down |-> "Extended"]]_vars

\* round(((0.8 - (level - 1) * 0.007) ^ (level - 1)) * 1000) for the levels
\* 1..4, in integers: the base is (800 - 7 * (level - 1)) / 1000
ClaimCurve(level) ==
    LET base == 800 - 7 * (level - 1)
    IN  CASE level = 1 -> 1000
          [] level = 2 -> base
          [] level = 3 -> (2 * base * base + 1000) \div 2000
          [] level = 4 -> (2 * base * base * base + 1000000) \div 2000000

\* C28: in every reachable state (after construction, start, reset, load and
\* every lock) fallspeed is the value of the guideline curve for the level of
\* the stats (compared for the levels 1..4); it is 1000 whenever the level
\* is 1.
C28_FallSpeedFollowsLevel ==
    /\ stats.level \in 1..4 => fallspeed = ClaimCurve(stats.level)
    /\ stats.level = 1 => fallspeed = 1000

\* C29: the engine does not reject commands while paused.  toggle_pause
\* changes the paused flag and nothing else (so two toggles restore the
\* state); move, rotate, hold, hard_drop and tick leave the flag alone, and
\* in a paused game they act as in one that is not: a legal move moves the
\* piece, a rotation applies its first legal kick, a hard drop lands the
\* piece, a tick moves the piece down or locks it, an available hold takes
\* the piece.
C29_PausedEngineTakesCommands ==
    [][/\ last'.op = "pause" =>
            /\ game_paused' = ~game_paused
            /\ UNCHANGED <<grid, current_piece, next_queue, bag, hold_queue,
                           hold_available, stats, game_running, fallspeed,
                           game_options>>
       /\ last'.op \in {"move", "hard_drop", "tick", "hold"} =>
            game_paused' = game_paused
       /\ game_paused =>
            /\ IsMove' =>
                (ClaimMoveLegal(grid, current_piece.blocks, last'.arg)
                    <=> current_piece'.blocks = ClaimTargets(current_piece.blocks, last'.arg))
            /\ (IsRotation' /\ current_piece.type \in TypeSet \ {"O"}) =>
                \A k \in 1..5 :
                    (/\ ClaimKickLegal(grid, current_piece, last'.arg = "C", k)
                     /\ \A j \in 1..(k - 1) :
                            ~ClaimKickLegal(grid, current_piece, last'.arg = "C", j))
                    => current_piece'.blocks = ClaimKicked(current_piece, last'.arg = "C", k)
            /\ IsHardDrop' =>
                /\ \E n \in 0..21 :
                    current_piece'.blocks = ClaimLowered(current_piece.blocks, n)
                /\ ~ClaimMoveLegal(grid', current_piece'.blocks, "D")
            /\ IsTick' =>
                IF ClaimMoveLegal(grid, current_piece.blocks, "D")
                THEN current_piece'.blocks = ClaimTargets(current_piece.blocks, "D")
                ELSE IsLock' /\ pm'.locked
            /\ (IsHold' /\ ClaimMayHold) =>
                /\ hold_queue' = current_piece.type
                /\ ~hold_available']_vars

\* in a paused game the piece was turned with a kick
C29_Witness ==
    /\ game_paused
    /\ game_running
    /\ IsRotation
    /\ last.res >= 2

\* C30: a legal move or a successful rotation changes the grid only on the
\* old and the new footprint of the piece: the cells of the old footprint
\* that are not in the new one become 0, the cells of the new footprint
\* hold the value of the type of the piece, and every other cell of the
\* grid is unchanged.
C30_MoveChangesFootprintsOnly ==
    [][(last'.op = "move" /\ current_piece'.blocks # current_piece.blocks) =>
        \A r \in 0..21, c \in 0..9 :
            grid'[r + 1][c + 1] =
                IF <<c, r>> \in ClaimCells(current_piece'.blocks)
                THEN GridPieceMap(current_piece.type)
                ELSE IF <<c, r>> \in ClaimCells(current_piece.blocks)
                THEN 0
                ELSE grid[r + 1][c + 1]]_vars

\* the piece was turned on top of the stack with a kick that moved it
C30_Witness ==
    /\ IsRotation
    /\ last.res >= 2
    /\ \E c \in 0..9 : grid[MaxStack + 1][c + 1] = GridPieceMap(current_piece.type)
                       /\ <<c, MaxStack>> \in ClaimCells(current_piece.blocks)

\* row r (from 0) of grid g is full of locked blocks: all ten cells hold a
\* block and none is a cell of the active piece
ClaimRowLockedFull(g, blocks, r) ==
    /\ ClaimRowFull(g[r + 1])
    /\ \A c \in 0..9 : <<c, r>> \notin ClaimCells(blocks)

\* C31: whenever a piece is falling, after the generation that follows a
\* lock, no row of the grid is full of locked blocks: every row that was
\* full at the lock has been removed.
C31_NoFullRowWhileFalling ==
    game_running =>
        \A r \in 0..21 : ~ClaimRowLockedFull(grid, current_piece.blocks, r)

\* C32: once a lock has ended the game, no move, rotation, hold, hard drop,
\* tick or pause toggle sets running to true again, and a tick that locks
\* draws nothing from the randomizer: the queue, the bag and the active
\* piece stay as they are; running becomes true by start only.
C32_GameOverIsAbsorbing ==
    [][~game_running =>
          /\ game_running' => last'.op = "start"
          /\ last'.op \in {"move", "hard_drop", "hold", "tick", "pause"} => ~game_running'
          /\ (last'.op = "tick" /\ last'.arg = "lock") =>
                 /\ draws' = draws
                 /\ next_queue' = next_queue
                 /\ bag' = bag
                 /\ current_piece' = current_piece]_vars

\* after the end of the game a piece was held, and a tick has locked the
\* piece that the hold brought in
C32_Witness ==
    /\ ~game_running
    /\ IsLock
    /\ hold_queue # NoHold
    /\ pm.piece.type # draws[1]

\* the number of rows the piece with blocks own can be lowered in grid g
\* before a cell below it is outside the grid or holds another block
RECURSIVE ClaimFallRoom(_, _, _)
ClaimFallRoom(g, own, n) ==
    IF n < 22 /\ ClaimFree(g, own, ClaimLowered(own, n + 1))
    THEN ClaimFallRoom(g, own, n + 1)
    ELSE n

\* C33: under ticks alone every piece locks within 22 ticks: a piece has
\* room to fall at most 21 rows; a tick on a piece with room lowers every
\* block by exactly one row and leaves one row less of room; a tick on a
\* piece without room enters the lock phase.
C33_TicksReachLock ==
    [][(current_piece.type \in TypeSet /\ last'.op = "tick") =>
          LET room == ClaimFallRoom(grid, current_piece.blocks, 0)
          IN  /\ room <= 21
              /\ IF room = 0
                 THEN last'.arg = "lock"
                 ELSE /\ last'.arg = "fall"
                      /\ current_piece'.blocks = ClaimLowered(current_piece.blocks, 1)
                      /\ ClaimFallRoom(grid', current_piece'.blocks, 0) = room - 1]_vars

\* a tick has locked a piece that had no room left to fall
C33_Witness ==
    /\ IsLock
    /\ pm.piece.type \in TypeSet
    /\ ClaimFallRoom(pm.before, pm.piece.blocks, 0) = 0

\* C34: the falling phase is run by the run loop only while the game runs
\* and is not paused; once Start has been pressed the run loop goes on while
\* the game is paused, a call of it being due unless it has ended at a game
\* over; and a call that finds the game neither running nor paused
\* schedules no further call.
C34_RunLoopFollowsPause ==
    [][/\ last'.op = "tick" => (game_running /\ ~game_paused)
       /\ (app'.started /\ game_paused') => app'.loop \in {"due", "over"}
       /\ (last'.op = "loop" /\ ~game_running /\ ~game_paused) => app'.loop = "over"]_vars

ClaimQuarterTurns(c, k) ==
    CASE k = 0 -> c
      [] k = 1 -> <<c[2], -c[1]>>
      [] k = 2 -> <<-c[1], -c[2]>>
      [] k = 3 -> <<-c[2], c[1]>>

\* blocks are the spawn layout of type t, block by block, after a number of
\* quarter turns and one translation
ClaimRigid(blocks, t) ==
    \E k \in 0..3 :
        LET dx == blocks[1][1] - ClaimQuarterTurns(SpawnBlocks(t)[1], k)[1]
            dy == blocks[1][2] - ClaimQuarterTurns(SpawnBlocks(t)[1], k)[2]
        IN  \A i \in 1..4 :
                blocks[i] = <<ClaimQuarterTurns(SpawnBlocks(t)[i], k)[1] + dx,
                              ClaimQuarterTurns(SpawnBlocks(t)[i], k)[2] + dy>>

\* C35: the four blocks of the active piece are four different cells of the
\* grid (column 0..9, row 0..21), and they are the spawn layout of the type
\* of the piece turned by quarter turns and translated.
C35_PieceStaysRigid ==
    current_piece.type \in TypeSet =>
        /\ Cardinality(ClaimCells(current_piece.blocks)) = 4
        /\ \A i \in 1..4 :
            /\ current_piece.blocks[i][1] >= 0 /\ current_piece.blocks[i][1] < 10
            /\ current_piece.blocks[i][2] >= 0 /\ current_piece.blocks[i][2] < 22
        /\ ClaimRigid(current_piece.blocks, current_piece.type)

\* a rotation with a kick other than the first has turned a piece in a game
C35_Witness ==
    /\ IsRotation
    /\ last.res > 1
    /\ game_running
    /\ current_piece.type \in TypeSet \ {"O"}
    /\ ~ClaimSpawned(current_piece, current_piece.type)

\* the piece and the grid of s after a rotation command
ClaimRotated(s, cw) == MovePiece(s.grid, s.piece, IF cw THEN "C" ELSE "A")

\* open space: each of the five kick candidates of the rotation is in the
\* grid and free
ClaimOpenSpace(s, cw) == \A k \in 1..5 : ClaimKickLegal(s.grid, s.piece, cw, k)

ClaimNow == [piece |-> current_piece, grid |-> grid]

\* C36: in open space four clockwise rotations in a row bring a piece of any
\* type, I included, back to the four block coordinates it had.
C36_FourTurnsReturn ==
    LET s1 == ClaimRotated(ClaimNow, TRUE)
        s2 == ClaimRotated(s1, TRUE)
        s3 == ClaimRotated(s2, TRUE)
        s4 == ClaimRotated(s3, TRUE)
    IN  (/\ current_piece.type \in TypeSet
         /\ ClaimOpenSpace(ClaimNow, TRUE)
         /\ ClaimOpenSpace(s1, TRUE)
         /\ ClaimOpenSpace(s2, TRUE)
         /\ ClaimOpenSpace(s3, TRUE))
        => s4.piece.blocks = current_piece.blocks

\* C37: in open space a clockwise rotation followed by a counter-clockwise
\* one, and a counter-clockwise rotation followed by a clockwise one, bring
\* back the four block coordinates of the piece and the grid, for every
\* type, I included.
C37_TurnAndBackRestores ==
    \A cw \in BOOLEAN :
        LET s1 == ClaimRotated(ClaimNow, cw)
            s2 == ClaimRotated(s1, ~cw)
        IN  (/\ current_piece.type \in TypeSet
             /\ ClaimOpenSpace(ClaimNow, cw)
             /\ ClaimOpenSpace(s1, ~cw))
            => (s2.piece.blocks = current_piece.blocks /\ s2.grid = grid)

\* where the blocks of a locked piece sit once the full rows are gone: the
\* blocks in a full row are removed, the others come down by the number of
\* full rows below them
ClaimSettled(blocks, rows) ==
    LET full == {rows[i] : i \in 1..Len(rows)}
    IN  {<<b[1], b[2] - Cardinality({r \in full : r < b[2]})>> :
            b \in {x \in ClaimCells(blocks) : x[2] \notin full}}

\* C38: the end of the game is decided from where the blocks of the piece
\* that locked sit after the cleared rows are gone: a lock in a running game
\* that clears rows, after which no block left of the piece is in the spawn
\* zone and not all of them are at row 20 or above, does not end the game.
C38_GameOverAfterCompaction ==
    [][(/\ game_running
        /\ IsLock'
        /\ pm'.rows # <<>>
        /\ LET left == ClaimSettled(pm'.piece.blocks, pm'.rows)
           IN  /\ \A b \in left : ~ClaimSpawnZone(b)
               /\ \E b \in left : b[2] < 20)
       => game_running']_vars

\* the last n entries of sequence q
ClaimLastOf(q, n) == {q[i] : i \in (Len(q) - n + 1)..Len(q)}

\* C39: the bag holds pairwise different types, and they are exactly the
\* types that do not occur among the last (7 - size of the bag) entries of
\* next_queue.
C39_BagComplementsQueue ==
    /\ \A i, j \in 1..Len(bag) : i # j => bag[i] # bag[j]
    /\ {bag[i] : i \in 1..Len(bag)} = TypeSet \ ClaimLastOf(next_queue, 7 - Len(bag))

\* the bag has been emptied, refilled and drawn from twice more
C39_Witness ==
    /\ Len(draws) = 9
    /\ Len(bag) = 5

====
